---- MODULE Spec2Model ----
(***************************************************************************)
(* A model of the Shopee return tool: the AddressExtractor (bounded        *)
(* concurrency enrichment over windows, timers and window messages), the   *)
(* OrderCrawler (cursor paginated crawl and its cache) and the SNMatcher.  *)
(* JavaScript runs one task at a time: a task (a timer callback, one       *)
(* message listener, a call from the page) runs to completion, and the     *)
(* promise reactions it queued run before the next task starts.            *)
(***************************************************************************)
EXTENDS Integers, Sequences, FiniteSets, TLC

(***************************************************************************)
(* Bounds of the model and constants of the program.                       *)
(***************************************************************************)
MaxPairs == 4

maxConcurrent == 3

\* the pages one crawl may request in the model (the code has no ceiling)
MaxPages == 2

pageSize == 50

\* the longest list of SNs handed to matchReturnSns
MaxKeys == 3

\* the longest list of SNs whose match rate is computed
MaxTotal == 80

\* the most lines of a text handed to parseUserInput
MaxLines == 3

\* the longest array of raw records handed to filterValidData on its own
MaxRaw == 3

\* the most pieces an address handed to identifyWarehouse is made of
MaxPieces == 3

\* null / undefined where a string is expected (strings are sequences)
Null == << "null" >>

\* no processNext is running its loop
NoCaller == 0 - 1

\* return_sn / return_id values of the pairs handed to extractAddresses
\* (a list may hold the same pair more than once)
PairChoices ==
    { [return_sn |-> "SN1", return_id |-> "ID1"],
      [return_sn |-> "SN2", return_id |-> "ID2"] }

PairKeys == { c.return_sn : c \in PairChoices }

PairIds == { c.return_id : c \in PairChoices }

(***************************************************************************)
(* Strings are sequences of one-character strings, so that                 *)
(* String.prototype.includes is a real substring search.                   *)
(***************************************************************************)
Code50121 == <<"5", "0", "1", "2", "1">>

Code61254 == <<"6", "1", "2", "5", "4">>

Code14460 == <<"1", "4", "4", "6", "0">>

\* warehouseRules, as the object literal writes it
warehouseRules ==
    << [postalCode |-> Code50121, warehouseCode |-> "BI SMR"],
       [postalCode |-> Code61254, warehouseCode |-> "BI SBY"],
       [postalCode |-> Code14460, warehouseCode |-> "BI JKT"] >>

\* Object.entries lists integer-like keys in ascending numeric order,
\* whatever the order of the literal: 14460, 50121, 61254.
RuleEntries == << warehouseRules[3], warehouseRules[1], warehouseRules[2] >>

WarehouseUnknown == "unknown"

WarehouseOther == "other"

\* the three fixed address texts, each one token
AddrBlocked == << "window blocked" >>

AddrTimeout == << "extract timeout" >>

AddrNotFound == << "address not found" >>

Includes(s, sub) ==
    \E i \in 0..(Len(s) - Len(sub)) :
        \A j \in 1..Len(sub) : s[i + j] = sub[j]

\* !address: null, undefined and the empty string
Falsy(address) == address = Null \/ address = <<>>

identifyWarehouse(address) ==
    IF Falsy(address) THEN WarehouseUnknown
    ELSE LET hits == { k \in 1..Len(RuleEntries) :
                         Includes(address, RuleEntries[k].postalCode) }
         IN  IF hits = {} THEN WarehouseOther
             ELSE LET first == CHOOSE k \in hits : \A m \in hits : k <= m
                  IN  RuleEntries[first].warehouseCode

(***************************************************************************)
(* The window messages the page can receive.                               *)
(***************************************************************************)
EventTag == "SHOPEE_ADDRESS_EXTRACTED"

\* what the opened page reports: an address it found, or none
Extractions ==
    { [ success |-> TRUE, address |-> Code50121 ],
      [ success |-> FALSE, address |-> Null ] }

Messages ==
    { [ type |-> EventTag, orderId |-> id, success |-> x.success,
        address |-> x.address ] : id \in PairIds, x \in Extractions }
    \cup { [ type |-> "OTHER", orderId |-> "ID1", success |-> TRUE,
             address |-> Null ] }

VARIABLES
    matchedResults,   \* the argument of extractAddresses
    ePc,              \* extractAddresses: "init", "run", "returned"
    results,          \* its local results array
    queue,            \* its local queue (indices into matchedResults)
    processing,       \* its local array of promises (one per dispatched pair)
    inLoop,           \* the caller of the processNext running its loop:
                      \* 0 extractAddresses, p the .then callback of pair p
    awaits,           \* caller -> the promises its Promise.all awaits
    promiseState,     \* pair -> "none", "pending", "resolved"
    promiseValue,     \* pair -> the value its promise resolved with
    thenDone,         \* pair -> its .then callback has run
    microQ,           \* the .then callbacks queued as promise reactions
    timers,           \* the armed timeouts, in the order they expire
    listeners,        \* the registered message handlers, in order
    openWindows,      \* the windows opened and not closed
    event,            \* the message being dispatched to the listeners
    cacheResults,     \* AddressExtractor.cache.results
    cacheProcessing,  \* AddressExtractor.cache.processing
    timerFired,       \* pair -> its timeout callback has run
    firstEvent,       \* pair -> what ran first: "timer" or "message"
    progress          \* the arguments progressCallback was called with

enrichVars ==
    << matchedResults, ePc, results, queue, processing, inLoop, awaits,
       promiseState, promiseValue, thenDone, microQ, timers, listeners,
       openWindows, event, cacheResults, cacheProcessing, timerFired,
       firstEvent, progress >>

VARIABLES
    cacheRawData,       \* OrderCrawler.cache.rawData
    cacheFilteredData,  \* OrderCrawler.cache.filteredData
    cacheSnToIdMap,     \* OrderCrawler.cache.snToIdMap
    cacheLastUpdate,    \* OrderCrawler.cache.lastUpdate: 0 is null, c the time
                        \* at which crawl c stored its index
    crawlPc,            \* call -> "idle", "fetching", "sleeping", "done", "threw"
    dateRange,          \* call -> its dateRange
    allData,            \* call -> its local allData
    currentPage,        \* call -> its local currentPage
    hasMoreData,        \* call -> its local hasMoreData
    currentOffset,      \* call -> its local currentOffset
    returned,           \* call -> the array it returned
    requests,           \* call -> the number of page requests it issued
    lastRequest,        \* call -> the payload of its latest page request
    responses,          \* call -> the number of responses it received
    pagesSeen,          \* call -> the record arrays it appended, in order
    stopCause           \* call -> why its loop ended: "empty", "flag" (the
                        \* two breaks), "error" (the catch), "nomore" (the
                        \* while condition)

crawlVars ==
    << cacheRawData, cacheFilteredData, cacheSnToIdMap, cacheLastUpdate,
       crawlPc, dateRange, allData, currentPage, hasMoreData, currentOffset,
       returned, requests, lastRequest, responses, pagesSeen, stopCause >>

VARIABLES
    userInput,        \* SNMatcher.cache.userInput
    matchedCache,     \* SNMatcher.cache.matchedResults
    unmatchedCache,   \* SNMatcher.cache.unmatchedSns
    matcherMap,       \* SNMatcher.cache.snToIdMap
    matchCall,        \* the arguments of the latest matchReturnSns call
    matchResult,      \* what that call returned, and the notice it showed
    parseCall         \* the latest parseUserInput call: its argument, what
                      \* it returned and the error it showed

matchVars ==
    << userInput, matchedCache, unmatchedCache, matcherMap, matchCall,
       matchResult, parseCall >>

VARIABLES
    filterCall,       \* a filterValidData call made on its own: its
                      \* argument, what it returned, the count it logged
    warehouseCall     \* an identifyWarehouse call made on its own: its
                      \* argument and what it returned

callVars == << filterCall, warehouseCall >>

\* the state of the other components, which the enricher never touches
nonEnrichVars == << crawlVars, matchVars, callVars >>

\* the state of the other components, which the crawler never touches
nonCrawlVars == << enrichVars, matchVars, callVars >>

\* the state of the other components, which the matcher never touches
nonMatchVars == << enrichVars, crawlVars, callVars >>

vars == << enrichVars, crawlVars, matchVars, callVars >>

Pairs == 1..Len(matchedResults)

\* two crawlOrders calls that may overlap: the first, and a second one made
\* at any later moment
Crawls == {1, 2}

\* getSelectedDateRange() returned null
NoDateRange == [ lower_value |-> 0, upper_value |-> 0 ]

\* no page request issued yet
NoRequest ==
    [ page_number |-> 0, page_size |-> 0, create_time_range |-> NoDateRange,
      cursor |-> [ present |-> FALSE, cursor_type |-> 0, cursor_offset |-> 0 ] ]

SeqWithout(s, x) == SelectSeq(s, LAMBDA y : y # x)

\* Map.prototype.set
MapSet(m, k, v) == [ x \in DOMAIN m \cup {k} |-> IF x = k THEN v ELSE m[x] ]

EmptyMap == [ x \in {} |-> Null ]

NoResult ==
    [ success |-> FALSE, return_sn |-> "", return_id |-> "",
      address |-> Null, warehouse |-> "" ]

NoEvent ==
    [ active |-> FALSE,
      data |-> [ type |-> "OTHER", orderId |-> "ID1", success |-> TRUE,
                 address |-> Null ],
      pending |-> << >> ]

(***************************************************************************)
(* extractAddress(returnSn, returnId): the three results it builds.        *)
(***************************************************************************)
BlockedResult(p) ==
    [ success |-> FALSE, return_sn |-> matchedResults[p].return_sn,
      return_id |-> matchedResults[p].return_id,
      address |-> AddrBlocked, warehouse |-> WarehouseUnknown ]

TimeoutResult(p) ==
    [ success |-> FALSE, return_sn |-> matchedResults[p].return_sn,
      return_id |-> matchedResults[p].return_id,
      address |-> AddrTimeout, warehouse |-> WarehouseUnknown ]

MessageResult(p, data) ==
    [ success |-> data.success, return_sn |-> matchedResults[p].return_sn,
      return_id |-> matchedResults[p].return_id,
      address |-> IF Falsy(data.address) THEN AddrNotFound ELSE data.address,
      warehouse |-> identifyWarehouse(data.address) ]

(***************************************************************************)
(* Promises.  resolve() of a settled promise does nothing; resolving a     *)
(* pending one queues its .then callback as a promise reaction.            *)
(***************************************************************************)
Resolve(p, value) ==
    IF promiseState[p] = "pending"
    THEN /\ promiseState' = [promiseState EXCEPT ![p] = "resolved"]
         /\ promiseValue' = [promiseValue EXCEPT ![p] = value]
         /\ microQ' = Append(microQ, p)
    ELSE UNCHANGED << promiseState, promiseValue, microQ >>

\* The callers whose promise has settled: the promise of pair p's .then
\* settles once its callback ran and the processNext it returned has: once
\* every promise that Promise.all was given has settled.
RECURSIVE SettledAfter(_)
SettledAfter(k) ==
    IF k = 0 THEN {}
    ELSE LET before == SettledAfter(k - 1)
         IN  { c \in DOMAIN awaits :
                 /\ c # 0 => thenDone[c]
                 /\ awaits[c] \subseteq before }

Settled == SettledAfter(Len(matchedResults) + 1)

\* the pairs whose extractAddress promise is pending
InFlight == { p \in Pairs : promiseState[p] = "pending" }

\* the OrderCrawler as the script defines it, no crawlOrders call made
CrawlerConstructed ==
    /\ cacheRawData = << >>
    /\ cacheFilteredData = << >>
    /\ cacheSnToIdMap = EmptyMap
    /\ cacheLastUpdate = 0
    /\ crawlPc = [c \in Crawls |-> "idle"]
    /\ dateRange = [c \in Crawls |-> NoDateRange]
    /\ allData = [c \in Crawls |-> << >>]
    /\ currentPage = [c \in Crawls |-> 1]
    /\ hasMoreData = [c \in Crawls |-> TRUE]
    /\ currentOffset = [c \in Crawls |-> 0]
    /\ returned = [c \in Crawls |-> << >>]
    /\ requests = [c \in Crawls |-> 0]
    /\ lastRequest = [c \in Crawls |-> NoRequest]
    /\ responses = [c \in Crawls |-> 0]
    /\ pagesSeen = [c \in Crawls |-> << >>]
    /\ stopCause = [c \in Crawls |-> "none"]

\* no filterValidData call made on its own
NoFilterCall ==
    [ called |-> FALSE, dataArray |-> << >>, returned |-> << >>,
      logged |-> [ shown |-> FALSE, count |-> 0 ] ]

\* no identifyWarehouse call made on its own
NoWarehouseCall == [ called |-> FALSE, address |-> Null, returned |-> "" ]

\* no function was called on its own
NoStandaloneCall ==
    /\ filterCall = NoFilterCall
    /\ warehouseCall = NoWarehouseCall

\* no matchReturnSns call made yet
NoMatchCall == [ called |-> FALSE, userSns |-> << >>, crawledMap |-> EmptyMap ]

NoMatchResult ==
    [ matched |-> << >>, unmatched |-> << >>, matchRate |-> 0,
      notice |-> "none" ]

\* no parseUserInput call made yet
NoParseCall ==
    [ called |-> FALSE,
      input |-> [ type |-> "undefined", text |-> << >>, lines |-> << >> ],
      returned |-> << >>, error |-> "none" ]

\* the SNMatcher as the script defines it
MatcherConstructed ==
    /\ userInput = << >>
    /\ matchedCache = << >>
    /\ unmatchedCache = << >>
    /\ matcherMap = EmptyMap
    /\ matchCall = NoMatchCall
    /\ matchResult = NoMatchResult
    /\ parseCall = NoParseCall

\* the AddressExtractor as the script defines it, before extractAddresses
ExtractorConstructed ==
    /\ ePc = "init"
    /\ results = << >>
    /\ queue = << >>
    /\ processing = << >>
    /\ inLoop = NoCaller
    /\ awaits = EmptyMap
    /\ promiseState = [p \in Pairs |-> "none"]
    /\ promiseValue = [p \in Pairs |-> NoResult]
    /\ thenDone = [p \in Pairs |-> FALSE]
    /\ microQ = << >>
    /\ timers = << >>
    /\ listeners = << >>
    /\ openWindows = {}
    /\ event = NoEvent
    /\ cacheResults = EmptyMap
    /\ cacheProcessing = {}
    /\ timerFired = [p \in Pairs |-> FALSE]
    /\ firstEvent = [p \in Pairs |-> "none"]
    /\ progress = << >>

InitEnrich ==
    /\ matchedResults \in
         UNION { [1..n -> PairChoices] : n \in 0..MaxPairs }
    /\ ExtractorConstructed
    /\ CrawlerConstructed
    /\ MatcherConstructed
    /\ NoStandaloneCall

(***************************************************************************)
(* extractAddresses(matchedResults, progressCallback)                      *)
(***************************************************************************)
ExtractAddressesCall ==
    /\ ePc = "init"
    /\ IF Len(matchedResults) = 0
       THEN /\ ePc' = "returned"
            /\ UNCHANGED << queue, inLoop >>
       ELSE /\ ePc' = "run"
            /\ queue' = [i \in 1..Len(matchedResults) |-> i]
            /\ inLoop' = 0
    /\ results' = << >>
    /\ processing' = << >>
    /\ UNCHANGED << progress, matchedResults, awaits, promiseState, promiseValue,
                    thenDone, microQ, timers, listeners, openWindows, event,
                    cacheResults, cacheProcessing, timerFired, firstEvent >>
    /\ UNCHANGED nonEnrichVars

\* (a slip in the loop condition: one promise too many)
CanDispatchOffByOne == queue # << >> /\ Len(processing) <= maxConcurrent

\* the condition of processNext's while loop
CanDispatch == queue # << >> /\ Len(processing) < maxConcurrent

\* extractAddress up to the end of the promise executor: window.open gave a
\* window (opened) or null.
ExtractAddressStart(p, opened) ==
    IF opened
    THEN /\ cacheProcessing' = cacheProcessing \cup {matchedResults[p].return_id}
         /\ timers' = Append(timers, p)
         /\ listeners' = Append(listeners, p)
         /\ openWindows' = openWindows \cup {p}
         /\ promiseState' = [promiseState EXCEPT ![p] = "pending"]
         /\ UNCHANGED << promiseValue, microQ >>
    ELSE /\ promiseState' = [promiseState EXCEPT ![p] = "resolved"]
         /\ promiseValue' = [promiseValue EXCEPT ![p] = BlockedResult(p)]
         /\ microQ' = Append(microQ, p)
         /\ UNCHANGED << cacheProcessing, timers, listeners, openWindows >>

\* (taking the item from the wrong end: queue.pop())
QueuePop ==
    [ item |-> queue[Len(queue)], rest |-> SubSeq(queue, 1, Len(queue) - 1) ]

\* queue.shift(): the first item, and the queue it leaves
QueueShift == [ item |-> Head(queue), rest |-> Tail(queue) ]

\* one turn of processNext's while loop
ProcessNextDispatch ==
    /\ inLoop # NoCaller
    /\ CanDispatch
    /\ \E opened \in BOOLEAN :
         LET item == QueueShift.item
         IN  /\ queue' = QueueShift.rest
             /\ ExtractAddressStart(item, opened)
             /\ processing' = Append(processing, item)
    /\ UNCHANGED << progress, matchedResults, ePc, results, inLoop, awaits, thenDone,
                    event, cacheResults, timerFired, firstEvent >>
    /\ UNCHANGED nonEnrichVars

\* the loop is over: await Promise.all(processing), when there is any
ProcessNextAwait ==
    /\ inLoop # NoCaller
    /\ ~CanDispatch
    /\ awaits' = MapSet(awaits, inLoop,
                        { processing[i] : i \in 1..Len(processing) })
    /\ inLoop' = NoCaller
    /\ UNCHANGED << progress, matchedResults, ePc, results, queue, processing,
                    promiseState, promiseValue, thenDone, microQ, timers,
                    listeners, openWindows, event, cacheResults,
                    cacheProcessing, timerFired, firstEvent >>
    /\ UNCHANGED nonEnrichVars

\* the .then callback of the pair whose reaction is first in the queue
ThenCallback ==
    /\ inLoop = NoCaller
    /\ microQ # << >>
    /\ LET p == Head(microQ)
       IN  /\ results' = Append(results, promiseValue[p])
           /\ progress' = Append(progress,
                                 [ total |-> Len(matchedResults),
                                   completed |-> Len(results) + 1,
                                   current |-> promiseValue[p] ])
           /\ processing' = SeqWithout(processing, p)
           /\ thenDone' = [thenDone EXCEPT ![p] = TRUE]
           /\ inLoop' = p
    /\ microQ' = Tail(microQ)
    /\ UNCHANGED << matchedResults, ePc, queue, awaits, promiseState,
                    promiseValue, timers, listeners, openWindows, event,
                    cacheResults, cacheProcessing, timerFired, firstEvent >>
    /\ UNCHANGED nonEnrichVars

\* await processNext() of extractAddresses is over
ReturnReady ==
    /\ ePc = "run"
    /\ inLoop = NoCaller
    /\ microQ = << >>
    /\ 0 \in Settled

ExtractAddressesReturn ==
    /\ ReturnReady
    /\ ePc' = "returned"
    /\ UNCHANGED << progress, matchedResults, results, queue, processing, inLoop,
                    awaits, promiseState, promiseValue, thenDone, microQ,
                    timers, listeners, openWindows, event, cacheResults,
                    cacheProcessing, timerFired, firstEvent >>
    /\ UNCHANGED nonEnrichVars

\* no code is running and no promise reaction is queued
StackEmpty == inLoop = NoCaller /\ microQ = << >> /\ ~ReturnReady

\* the next task may start
Idle == StackEmpty /\ ~event.active

(***************************************************************************)
(* The timeout callback of extractAddress                                  *)
(***************************************************************************)
TimeoutCallback(p) ==
    LET returnId == matchedResults[p].return_id
    IN  IF returnId \in cacheProcessing
        THEN /\ cacheProcessing' = cacheProcessing \ {returnId}
             /\ openWindows' = openWindows \ {p}
             /\ Resolve(p, TimeoutResult(p))
        ELSE UNCHANGED << cacheProcessing, openWindows, promiseState,
                          promiseValue, microQ >>

\* all timeouts are equal, so the timers expire in the order they were set
TimerExpires ==
    /\ Idle
    /\ timers # << >>
    /\ LET p == Head(timers)
       IN  /\ TimeoutCallback(p)
           /\ timerFired' = [timerFired EXCEPT ![p] = TRUE]
           /\ firstEvent' = [firstEvent EXCEPT ![p] =
                               IF @ = "none" THEN "timer" ELSE @]
    /\ timers' = Tail(timers)
    /\ UNCHANGED << progress, matchedResults, ePc, results, queue, processing, inLoop,
                    awaits, thenDone, listeners, event, cacheResults >>
    /\ UNCHANGED nonEnrichVars

(***************************************************************************)
(* messageHandler of extractAddress                                        *)
(***************************************************************************)
\* (a handler that looks at the event tag only)
CorrelatedByTagOnly(p, data) == data.type = EventTag

Correlated(p, data) ==
    data.type = EventTag /\ data.orderId = matchedResults[p].return_id

messageHandler(p, data) ==
    IF Correlated(p, data)
    THEN LET result == MessageResult(p, data)
         IN  /\ timers' = SeqWithout(timers, p)
             /\ cacheProcessing' =
                  cacheProcessing \ {matchedResults[p].return_id}
             /\ listeners' = SeqWithout(listeners, p)
             /\ cacheResults' = MapSet(cacheResults, result.return_sn, result)
             /\ openWindows' = openWindows \ {p}
             /\ Resolve(p, result)
             /\ firstEvent' = [firstEvent EXCEPT ![p] =
                                 IF @ = "none" THEN "message" ELSE @]
    ELSE UNCHANGED << timers, cacheProcessing, listeners, cacheResults,
                      openWindows, promiseState, promiseValue, microQ,
                      firstEvent >>

\* a message event arrives: it will be given to the listeners registered now
MessageArrives ==
    /\ Idle
    /\ ePc # "init"
    /\ listeners # << >>
    /\ \E data \in Messages :
         event' = [ active |-> TRUE, data |-> data, pending |-> listeners ]
    /\ UNCHANGED << progress, matchedResults, ePc, results, queue, processing, inLoop,
                    awaits, promiseState, promiseValue, thenDone, microQ,
                    timers, listeners, openWindows, cacheResults,
                    cacheProcessing, timerFired, firstEvent >>
    /\ UNCHANGED nonEnrichVars

\* the event is given to its next listener; the promise reactions a listener
\* queued run before the next listener does
ListenerRuns ==
    /\ StackEmpty
    /\ event.active
    /\ LET p == Head(event.pending)
           rest == Tail(event.pending)
       IN  /\ messageHandler(p, event.data)
           /\ event' = IF rest = << >> THEN NoEvent
                       ELSE [event EXCEPT !.pending = rest]
    /\ UNCHANGED << progress, matchedResults, ePc, results, queue, processing, inLoop,
                    awaits, thenDone, timerFired >>
    /\ UNCHANGED nonEnrichVars

\* getCachedResult(returnSn): the cached result, or null (NoResult)
getCachedResult(returnSn) ==
    IF returnSn \in DOMAIN cacheResults THEN cacheResults[returnSn]
    ELSE NoResult

NextEnrich ==
    \/ ExtractAddressesCall
    \/ ProcessNextDispatch
    \/ ProcessNextAwait
    \/ ThenCallback
    \/ ExtractAddressesReturn
    \/ TimerExpires
    \/ MessageArrives
    \/ ListenerRuns

SpecEnrich == InitEnrich /\ [][NextEnrich]_vars

\* The scheduling of the page: a queued reaction runs, a dispatched event
\* reaches its listeners, and an armed timer expires however many messages
\* arrive meanwhile.  Whether a window ever posts a message is up to the
\* window.
FairSpecEnrich ==
    /\ SpecEnrich
    /\ WF_vars(ExtractAddressesCall)
    /\ WF_vars(ProcessNextDispatch)
    /\ WF_vars(ProcessNextAwait)
    /\ WF_vars(ThenCallback)
    /\ WF_vars(ExtractAddressesReturn)
    /\ SF_vars(TimerExpires)
    /\ WF_vars(ListenerRuns)

(***************************************************************************)
(* extractAddresses with AddressExtractor.clearCache() called meanwhile     *)
(***************************************************************************)
\* AddressExtractor.clearCache(), called by another task of the page
ClearExtractorCache ==
    /\ Idle
    /\ cacheResults' = EmptyMap
    /\ cacheProcessing' = {}
    /\ UNCHANGED << progress, matchedResults, ePc, results, queue, processing,
                    inLoop, awaits, promiseState, promiseValue, thenDone,
                    microQ, timers, listeners, openWindows, event,
                    timerFired, firstEvent >>
    /\ UNCHANGED nonEnrichVars

NextEnrichClear ==
    \/ NextEnrich
    \/ ClearExtractorCache

SpecEnrichClear == InitEnrich /\ [][NextEnrichClear]_vars

(***************************************************************************)
(* identifyWarehouse on its own, on any address                            *)
(***************************************************************************)
\* what an address is made of: the three codes, other text, and the start
\* of a code
AddressPieces ==
    { Code50121, Code61254, Code14460, << "J", "l", " " >>,
      << "5", "0", "1", "2" >> }

RECURSIVE Concat(_)
Concat(pieces) ==
    IF pieces = << >> THEN << >> ELSE Head(pieces) \o Concat(Tail(pieces))

Addresses ==
    { Concat(pieces) :
        pieces \in UNION { [1..n -> AddressPieces] : n \in 0..MaxPieces } }
    \cup { Null }

IdentifyCall ==
    /\ ~warehouseCall.called
    /\ warehouseCall' =
         [ called |-> TRUE, address |-> warehouseCall.address,
           returned |-> identifyWarehouse(warehouseCall.address) ]
    /\ UNCHANGED << enrichVars, crawlVars, matchVars, filterCall >>

InitIdentify ==
    /\ matchedResults = << >>
    /\ ExtractorConstructed
    /\ CrawlerConstructed
    /\ MatcherConstructed
    /\ filterCall = NoFilterCall
    /\ warehouseCall \in { [ NoWarehouseCall EXCEPT !.address = a ] :
                             a \in Addresses }

NextIdentify == IdentifyCall

SpecIdentify == InitIdentify /\ [][NextIdentify]_vars

(***************************************************************************)
(* The claims about the AddressExtractor                                   *)
(***************************************************************************)
MessageDerived(r) == r.address # AddrTimeout /\ r.address # AddrBlocked

\* a pair that ended as a failure: timed out, or its window was blocked
Failed(p) ==
    /\ promiseState[p] = "resolved"
    /\ promiseValue[p] \in { TimeoutResult(p), BlockedResult(p) }

\* C1: a pair is resolved by whichever of its timeout and its correlated
\* message occurs first: once the timeout callback ran first the pair is
\* resolved with the timeout result, once the message handler ran first it
\* is resolved with the message-derived result and its timer is disarmed.
C1_FirstEventWins ==
    \A p \in Pairs :
        /\ firstEvent[p] = "timer" =>
             /\ promiseState[p] = "resolved"
             /\ promiseValue[p] = TimeoutResult(p)
        /\ firstEvent[p] = "message" =>
             /\ promiseState[p] = "resolved"
             /\ MessageDerived(promiseValue[p])
             /\ \A i \in 1..Len(timers) : timers[i] # p

\* C2: every dispatched pair resolves at the latest at its timeout and the
\* batch returns: when no timeout is armed any more and nothing is left to
\* run, extractAddresses has returned.
C2_ReturnsOnceTimersExpired ==
    (ePc # "init" /\ Idle /\ timers = << >>) => ePc = "returned"

\* C3: at most maxConcurrent pairs are in flight at any instant, and a
\* queued pair is dispatched only when fewer than maxConcurrent are.
C3_ConcurrencyBound ==
    /\ [](Cardinality(InFlight) <= maxConcurrent)
    /\ [][queue' # queue /\ ePc = "run" =>
            Cardinality(InFlight) < maxConcurrent]_vars

\* C3: three pairs are in flight after an earlier pair completed and freed
\* the slot the last of them took.
C3_Witness ==
    /\ Cardinality(InFlight) = maxConcurrent
    /\ results # << >>

\* C4: a correlated message handled after the timeout of its pair resolved
\* it changes neither the results cache, nor the ProcessingSet, nor the
\* result of the pair.
C4_LateMessageNoOp ==
    [][\A p \in Pairs :
          ( /\ StackEmpty
            /\ event.active
            /\ Head(event.pending) = p
            /\ Correlated(p, event.data)
            /\ promiseState[p] = "resolved"
            /\ promiseValue[p] = TimeoutResult(p) )
          => UNCHANGED << cacheResults, cacheProcessing, promiseValue >>]_vars

\* C5: a pair that timed out or was blocked never keeps a queued pair from
\* being dispatched and completed.
C5_FailureIsolation ==
    \A p \in 1..MaxPairs :
        ( /\ p \in Pairs
          /\ \E i \in 1..Len(queue) : queue[i] = p
          /\ \E q \in Pairs : Failed(q) )
        ~> ( p \in Pairs /\ thenDone[p] )

\* progressCallback was called once for each pair whose .then callback
\* ran: call k carries the number of input pairs, the count k and the
\* k-th result of the results array
ProgressInStep ==
    /\ Len(progress) = Len(results)
    /\ Len(progress) = Cardinality({ p \in Pairs : thenDone[p] })
    /\ \A k \in 1..Len(progress) :
          progress[k] = [ total |-> Len(matchedResults), completed |-> k,
                          current |-> results[k] ]

\* a call of progressCallback reports the pair that completed first among
\* those not reported yet
ProgressInCompletionOrder ==
    progress' # progress =>
       /\ microQ # << >>
       /\ progress' = Append(progress, progress'[Len(progress')])
       /\ progress'[Len(progress')].current = promiseValue[Head(microQ)]

\* C16: progressCallback fires exactly once per input pair, call k with
\* total = the number of input pairs, completed = k and current = the
\* result of the k-th pair to complete, and the returned array lists the
\* results in this order.
C16_ProgressOncePerPair ==
    /\ [](ProgressInStep /\ (ePc = "returned" =>
                                Len(progress) = Len(matchedResults)))
    /\ [][ProgressInCompletionOrder]_vars
    /\ <>[](Len(progress) = Len(matchedResults))

\* the place in the returned array of the last result with the key of
\* result k
LastWithKey(k) ==
    CHOOSE j \in 1..Len(results) :
       /\ results[j].return_sn = results[k].return_sn
       /\ \A i \in (j + 1)..Len(results) :
             results[i].return_sn # results[k].return_sn

\* C17: after extractAddresses returns, every result of the returned array
\* (from a message, a timeout or a blocked window) is in the results cache
\* under its key, and of several results with one key the later one is
\* cached.
C17_EveryResultCached ==
    ePc = "returned" =>
       \A k \in 1..Len(results) :
          /\ getCachedResult(results[k].return_sn) # NoResult
          /\ getCachedResult(results[k].return_sn) = results[LastWithKey(k)]

\* the ids of the pairs in flight: window opened, promise not resolved
InFlightIds == { matchedResults[p].return_id : p \in InFlight }

\* C19: in every state the ProcessingSet holds exactly the ids of the pairs
\* in flight, also when two pairs in flight carry the same id, and it holds
\* no id of the batch once extractAddresses has returned.
C19_ProcessingSetIsInFlight ==
    /\ cacheProcessing = InFlightIds
    /\ ePc = "returned" =>
          cacheProcessing \cap { matchedResults[p].return_id : p \in Pairs }
             = {}

\* extractAddress was called for pair p
Dispatched(p) == promiseState[p] # "none"

\* C20: the pairs are dispatched in the order of the input list: pair i is
\* never dispatched before pair i - 1, in whatever order the pairs in
\* flight complete.
C20_DispatchFifo ==
    \A i \in Pairs : Dispatched(i) => \A j \in 1..(i - 1) : Dispatched(j)

\* C20: the pairs in flight completed out of order (the third before the
\* first, which is still pending) and the fourth pair has been dispatched.
C20_Witness ==
    /\ Len(matchedResults) = MaxPairs
    /\ promiseState[1] = "pending"
    /\ thenDone[3]
    /\ Dispatched(MaxPairs)

\* the message carries the enrichment tag and the id pair p awaits
MeantFor(p, data) ==
    data.type = EventTag /\ data.orderId = matchedResults[p].return_id

\* what belongs to pair p: its timer, its listener, its window, its id in
\* the ProcessingSet, its promise
OwnState(p) ==
    << SelectSeq(timers, LAMBDA q : q = p),
       SelectSeq(listeners, LAMBDA q : q = p),
       p \in openWindows,
       matchedResults[p].return_id \in cacheProcessing,
       promiseState[p], promiseValue[p] >>

\* C21: a message that lacks the enrichment tag or carries another orderId
\* than the id of a pair leaves the pair as it is when the pair's handler
\* gets it (timer armed, id in the ProcessingSet, promise pending, results
\* cache untouched), and a message with orderId X resolves only pairs that
\* await X.
C21_CorrelationById ==
    [][\A p \in Pairs :
          /\ ( /\ StackEmpty
               /\ event.active
               /\ Head(event.pending) = p
               /\ ~MeantFor(p, event.data) )
             => UNCHANGED << timers, listeners, openWindows, cacheProcessing,
                             cacheResults, promiseState, promiseValue,
                             microQ >>
          /\ ( /\ StackEmpty
               /\ event.active
               /\ ~MeantFor(p, event.data) )
             => UNCHANGED OwnState(p)]_vars

\* C21: with two pairs in flight that await different ids, a message for
\* the second has been given to both handlers: it resolved the second, and
\* the first is still pending with its timer armed and its id registered.
C21_Witness ==
    \E p, q \in Pairs :
       /\ p < q
       /\ matchedResults[p].return_id # matchedResults[q].return_id
       /\ promiseState[p] = "pending"
       /\ SelectSeq(timers, LAMBDA x : x = p) # << >>
       /\ matchedResults[p].return_id \in cacheProcessing
       /\ promiseState[q] = "resolved"
       /\ firstEvent[q] = "message"
       /\ ~timerFired[q]
       /\ ~thenDone[q]

\* no two pairs of the batch carry the same id
DistinctIds ==
    \A p, q \in Pairs :
       p # q => matchedResults[p].return_id # matchedResults[q].return_id

\* C24: clearCache() called while pairs are in flight does not keep them
\* from resolving: a pair that is still pending when its timeout expires
\* is resolved by the timeout (stated for batches of pairwise different
\* ids, where every timeout resolves its pair when clearCache is not
\* called).
C24_ClearCacheKeepsTimeouts ==
    [][\A p \in Pairs :
          ( /\ DistinctIds
            /\ Idle
            /\ timers # << >>
            /\ Head(timers) = p
            /\ timers' = Tail(timers)
            /\ promiseState[p] = "pending" )
          => promiseState'[p] = "resolved"]_vars

\* the label of the rule that comes first in the rule table among those
\* whose code the address contains
FirstRuleOfTable(address) ==
    LET hits == { k \in 1..Len(warehouseRules) :
                    Includes(address, warehouseRules[k].postalCode) }
    IN  warehouseRules[CHOOSE k \in hits : \A m \in hits : k <= m].warehouseCode

\* C15: an empty or null address is labelled unknown, an address with none
\* of the codes other, an address with 50121 BI SMR, with 61254 BI SBY,
\* with 14460 BI JKT, and an address with several codes gets the label of
\* the rule that comes first in the rule table.
C15_WarehouseClassification ==
    warehouseCall.called =>
       LET address == warehouseCall.address
       IN  warehouseCall.returned =
             IF address = Null \/ address = << >> THEN "unknown"
             ELSE IF \A k \in 1..Len(warehouseRules) :
                        ~Includes(address, warehouseRules[k].postalCode)
                  THEN "other"
                  ELSE FirstRuleOfTable(address)

(***************************************************************************)
(* The OrderCrawler.  JavaScript values that are not the strings of ids    *)
(* and SNs: null, undefined, the number 0 (the empty string is "").        *)
(***************************************************************************)
JsNull == "<null>"

JsUndefined == "<undefined>"

JsZero == "<0>"

\* raw records of the list API (they carry more than the two fields)
RecA == [ return_id |-> "ID1", return_sn |-> "SN1", status |-> "open" ]

RecB == [ return_id |-> "ID2", return_sn |-> "SN1", status |-> "open" ]

RecC == [ return_id |-> "ID2", return_sn |-> "SN2", status |-> "open" ]

RecZ == [ return_id |-> "ID3", return_sn |-> JsZero, status |-> "open" ]

\* the record arrays a response may carry: none, one record, and a page with
\* an invalid record and two records of the same SN
Bodies == { << >>, << RecB >>, << RecZ, RecC, RecB, RecA >> }

\* pagination_info: absent, or with has_more true / false / missing and a
\* cursor.cursor_offset (0: no cursor, or the offset 0)
NoPagination ==
    [ present |-> FALSE, has_more |-> JsUndefined, cursor_offset |-> 0 ]

Paginations ==
    { NoPagination,
      [ present |-> TRUE, has_more |-> "true", cursor_offset |-> 7 ],
      [ present |-> TRUE, has_more |-> "true", cursor_offset |-> 0 ],
      [ present |-> TRUE, has_more |-> "false", cursor_offset |-> 0 ],
      [ present |-> TRUE, has_more |-> JsUndefined, cursor_offset |-> 0 ] }

\* What comes back for a page request.  status: "neterr" (onerror),
\* "unparseable" (JSON.parse throws), "json".  error: the error field of the
\* envelope (0 also when absent).  shape: "list" (data.exceptional_case_list),
\* "array" (data is the array), "none".
Responses ==
    { [ status |-> st, error |-> 0, shape |-> "none", body |-> << >>,
        pagination |-> NoPagination ] : st \in {"neterr", "unparseable"} }
    \cup { [ status |-> "json", error |-> 5, shape |-> "none", body |-> << >>,
             pagination |-> NoPagination ] }
    \cup { [ status |-> "json", error |-> 0, shape |-> "list", body |-> b,
             pagination |-> pg ] : b \in Bodies, pg \in Paginations }
    \cup { [ status |-> "json", error |-> 0, shape |-> "array",
             body |-> << RecB >>, pagination |-> NoPagination ] }
    \cup { [ status |-> "json", error |-> 0, shape |-> "none", body |-> << >>,
             pagination |-> pg ] :
             pg \in { NoPagination,
                      [ present |-> TRUE, has_more |-> "true",
                        cursor_offset |-> 7 ] } }

DateRanges == { [ lower_value |-> 100, upper_value |-> 200 ] }

\* the payload fetchPageData sends (the fields that vary)
Payload(pageNumber, offset, range) ==
    [ page_number |-> pageNumber,
      page_size |-> pageSize,
      create_time_range |-> range,
      cursor |-> IF offset # 0
                 THEN [ present |-> TRUE, cursor_type |-> 1,
                        cursor_offset |-> offset ]
                 ELSE [ present |-> FALSE, cursor_type |-> 0,
                        cursor_offset |-> 0 ] ]

\* fetchPageData rejects: onerror, a body JSON.parse throws on, or
\* data.error && data.error !== 0
Rejects(resp) ==
    \/ resp.status = "neterr"
    \/ resp.status = "unparseable"
    \/ resp.error # 0

\* responseData && Array.isArray(responseData) && responseData.length > 0
HasRecords(resp) == resp.shape \in {"list", "array"} /\ Len(resp.body) > 0

\* (a slip: the empty page no longer ends the loop)
BreaksOnFlagOnly(resp) ==
    resp.pagination.present /\ resp.pagination.has_more = "false"

\* (a slip: hasMore false no longer ends the loop at once)
BreaksOnEmptyOnly(resp) == ~HasRecords(resp)

\* the two breaks of the loop body
Breaks(resp) ==
    \/ ~HasRecords(resp)
    \/ resp.pagination.present /\ resp.pagination.has_more = "false"

\* (a slip: the number 0 is let through)
IsValidValueButZero(v) == v # JsNull /\ v # JsUndefined /\ v # ""

IsValidValue(v) == v # JsNull /\ v # JsUndefined /\ v # "" /\ v # JsZero

\* an array element that is null
NullItem == [ return_id |-> JsNull, return_sn |-> JsNull, status |-> JsNull ]

IsValidItem(item) ==
    /\ item # NullItem
    /\ IsValidValue(item.return_id)
    /\ IsValidValue(item.return_sn)

filterValidData(dataArray) ==
    LET validData == SelectSeq(dataArray, IsValidItem)
    IN  [ i \in 1..Len(validData) |->
            [ return_id |-> validData[i].return_id,
              return_sn |-> validData[i].return_sn ] ]

\* (a slip: an entry already in the map is kept)
RECURSIVE SetAllFirstWins(_, _)
SetAllFirstWins(m, list) ==
    IF list = << >> THEN m
    ELSE SetAllFirstWins(
             IF Head(list).return_sn \in DOMAIN m THEN m
             ELSE MapSet(m, Head(list).return_sn, Head(list).return_id),
             Tail(list))

\* filteredData.forEach(item => snToIdMap.set(item.return_sn, item.return_id))
RECURSIVE SetAll(_, _)
SetAll(m, list) ==
    IF list = << >> THEN m
    ELSE SetAll(MapSet(m, Head(list).return_sn, Head(list).return_id),
                Tail(list))

\* (a slip: the map is not cleared before it is rebuilt)
NotCleared(m) == m

\* snToIdMap.clear()
ClearedMap(m) == EmptyMap

\* step 4 of crawlOrders: filter, update the cache, return filteredData
StoreAndReturn(c, data) ==
    LET filteredData == filterValidData(data)
    IN  /\ cacheRawData' = data
        /\ cacheFilteredData' = filteredData
        /\ cacheLastUpdate' = c
        /\ cacheSnToIdMap' = SetAll(ClearedMap(cacheSnToIdMap), filteredData)
        /\ returned' = [returned EXCEPT ![c] = filteredData]
        /\ crawlPc' = [crawlPc EXCEPT ![c] = "done"]

\* (a slip: the page failure is thrown on to the caller)
CatchRethrows(c) ==
    /\ crawlPc' = [crawlPc EXCEPT ![c] = "threw"]
    /\ UNCHANGED << cacheRawData, cacheFilteredData, cacheLastUpdate,
                    cacheSnToIdMap, returned >>

\* the catch of the loop body: log and break
CatchFetchError(c) == StoreAndReturn(c, allData[c])

\* crawlOrders() up to its first page request
CrawlCall(c) ==
    /\ crawlPc[c] = "idle"
    /\ \A b \in Crawls : b < c => crawlPc[b] # "idle"
    /\ \E range \in DateRanges \cup {NoDateRange} :
         IF range = NoDateRange
         THEN /\ crawlPc' = [crawlPc EXCEPT ![c] = "threw"]
              /\ UNCHANGED << dateRange, requests, lastRequest >>
         ELSE /\ crawlPc' = [crawlPc EXCEPT ![c] = "fetching"]
              /\ dateRange' = [dateRange EXCEPT ![c] = range]
              /\ requests' = [requests EXCEPT ![c] = 1]
              /\ lastRequest' = [lastRequest EXCEPT ![c] = Payload(1, 0, range)]
    /\ UNCHANGED << cacheRawData, cacheFilteredData, cacheSnToIdMap,
                    cacheLastUpdate, allData, currentPage, hasMoreData,
                    currentOffset, returned, responses, pagesSeen, stopCause >>
    /\ UNCHANGED nonCrawlVars

\* the awaited fetchPageData settles and the loop body runs on
CrawlResponse(c, resp) ==
    /\ crawlPc[c] = "fetching"
    /\ responses' = [responses EXCEPT ![c] = @ + 1]
    /\ IF Rejects(resp)
       THEN /\ CatchFetchError(c)
            /\ stopCause' = [stopCause EXCEPT ![c] = "error"]
            /\ UNCHANGED << allData, currentPage, hasMoreData, currentOffset,
                            pagesSeen >>
       ELSE LET info == resp.pagination
                newAll == IF HasRecords(resp) THEN allData[c] \o resp.body
                          ELSE allData[c]
            IN  /\ hasMoreData' =
                     IF info.present
                     THEN [hasMoreData EXCEPT ![c] = (info.has_more = "true")]
                     ELSE hasMoreData
                /\ currentOffset' =
                     IF info.present
                     THEN [currentOffset EXCEPT ![c] =
                             IF info.cursor_offset # 0 THEN info.cursor_offset
                             ELSE currentPage[c] * pageSize]
                     ELSE currentOffset
                /\ allData' = [allData EXCEPT ![c] = newAll]
                /\ pagesSeen' =
                     IF HasRecords(resp)
                     THEN [pagesSeen EXCEPT ![c] = Append(@, resp.body)]
                     ELSE pagesSeen
                /\ IF Breaks(resp)
                   THEN /\ StoreAndReturn(c, newAll)
                        /\ stopCause' = [stopCause EXCEPT ![c] =
                             IF HasRecords(resp) THEN "flag" ELSE "empty"]
                        /\ UNCHANGED currentPage
                   ELSE /\ currentPage' = [currentPage EXCEPT ![c] = @ + 1]
                        /\ crawlPc' = [crawlPc EXCEPT ![c] = "sleeping"]
                        /\ UNCHANGED << cacheRawData, cacheFilteredData,
                                        cacheLastUpdate, cacheSnToIdMap,
                                        returned, stopCause >>
    /\ UNCHANGED << dateRange, requests, lastRequest >>
    /\ UNCHANGED nonCrawlVars

\* sleep(1000) is over: the while condition, then the next request or step 4
CrawlWake(c) ==
    /\ crawlPc[c] = "sleeping"
    /\ hasMoreData[c] => currentPage[c] <= MaxPages
    /\ IF hasMoreData[c]
       THEN /\ requests' = [requests EXCEPT ![c] = @ + 1]
            /\ lastRequest' = [lastRequest EXCEPT ![c] =
                  Payload(currentPage[c], currentOffset[c], dateRange[c])]
            /\ crawlPc' = [crawlPc EXCEPT ![c] = "fetching"]
            /\ UNCHANGED << cacheRawData, cacheFilteredData, cacheLastUpdate,
                            cacheSnToIdMap, returned, stopCause >>
       ELSE /\ StoreAndReturn(c, allData[c])
            /\ stopCause' = [stopCause EXCEPT ![c] = "nomore"]
            /\ UNCHANGED << requests, lastRequest >>
    /\ UNCHANGED << dateRange, allData, currentPage, hasMoreData,
                    currentOffset, responses, pagesSeen >>
    /\ UNCHANGED nonCrawlVars

\* OrderCrawler.clearCache()
ClearCrawlerCache ==
    /\ cacheRawData' = << >>
    /\ cacheFilteredData' = << >>
    /\ cacheSnToIdMap' = ClearedMap(cacheSnToIdMap)
    /\ cacheLastUpdate' = 0
    /\ UNCHANGED << crawlPc, dateRange, allData, currentPage, hasMoreData,
                    currentOffset, returned, requests, lastRequest, responses,
                    pagesSeen, stopCause >>
    /\ UNCHANGED nonCrawlVars

InitCrawl ==
    /\ matchedResults = << >>
    /\ ExtractorConstructed
    /\ CrawlerConstructed
    /\ MatcherConstructed
    /\ NoStandaloneCall

NextCrawl ==
    \/ \E c \in Crawls : CrawlCall(c)
    \/ \E c \in Crawls, resp \in Responses : CrawlResponse(c, resp)
    \/ \E c \in Crawls : CrawlWake(c)
    \/ ClearCrawlerCache

SpecCrawl == InitCrawl /\ [][NextCrawl]_vars

(***************************************************************************)
(* filterValidData on its own, on any array of raw records                 *)
(***************************************************************************)
RawValues == { JsNull, JsUndefined, "", JsZero }

RawRecords ==
    { [ return_id |-> id, return_sn |-> sn, status |-> "open" ] :
        id \in RawValues \cup { "ID1" }, sn \in RawValues \cup { "SN1" } }
    \cup { NullItem }

RawArrays == UNION { [1..n -> RawRecords] : n \in 0..MaxRaw }

\* filterValidData(dataArray), with the count it logs when it is above 0
FilterCall ==
    /\ ~filterCall.called
    /\ LET dataArray == filterCall.dataArray
           validData == filterValidData(dataArray)
           filteredCount == Len(dataArray) - Len(validData)
       IN  filterCall' =
             [ called |-> TRUE, dataArray |-> dataArray,
               returned |-> validData,
               logged |-> [ shown |-> filteredCount > 0,
                            count |-> IF filteredCount > 0 THEN filteredCount
                                      ELSE 0 ] ]
    /\ UNCHANGED << enrichVars, crawlVars, matchVars, warehouseCall >>

InitFilter ==
    /\ matchedResults = << >>
    /\ ExtractorConstructed
    /\ CrawlerConstructed
    /\ MatcherConstructed
    /\ filterCall \in { [ NoFilterCall EXCEPT !.dataArray = d ] :
                          d \in RawArrays }
    /\ warehouseCall = NoWarehouseCall

NextFilter == FilterCall

SpecFilter == InitFilter /\ [][NextFilter]_vars

(***************************************************************************)
(* The claims about the OrderCrawler                                       *)
(***************************************************************************)
RECURSIVE Flatten(_)
Flatten(pages) ==
    IF pages = << >> THEN << >>
    ELSE Head(pages) \o Flatten(Tail(pages))

\* a well-formed response that is an empty page, carries no recognised
\* record array, or says hasMore false
EndOfData(resp) ==
    /\ resp.status = "json"
    /\ resp.error = 0
    /\ \/ resp.shape = "none"
       \/ resp.body = << >>
       \/ resp.pagination.present /\ resp.pagination.has_more = "false"

\* a transport error, an unparseable body, an error envelope
PageFailure(resp) ==
    \/ resp.status \in {"neterr", "unparseable"}
    \/ resp.status = "json" /\ resp.error # 0

\* C6: the crawl stops at the first response that is an empty or
\* unrecognised page or says hasMore false: it returns (no exception), the
\* requests it has issued are as many as the responses up to this one, and
\* it issues none afterwards.
C6_StopsAtEndOfData ==
    [][\A c \in Crawls :
          /\ \A resp \in Responses :
                (CrawlResponse(c, resp) /\ EndOfData(resp)) =>
                   /\ crawlPc'[c] = "done"
                   /\ requests'[c] = responses'[c]
          /\ crawlPc[c] = "done" =>
                crawlPc'[c] = "done" /\ requests'[c] = requests[c]]_vars

\* C6: a crawl ended by an empty page that answered its second request.
C6_Witness ==
    \E c \in Crawls :
        /\ crawlPc[c] = "done"
        /\ stopCause[c] = "empty"
        /\ requests[c] = 2
        /\ allData[c] # << >>

\* C7: a failing page request ends the crawl without an exception, without
\* a retry or a further request, and what is returned and stored is the
\* filtered records of the pages before it.
C7_FailureTruncates ==
    [][\A c \in Crawls, resp \in Responses :
          (CrawlResponse(c, resp) /\ PageFailure(resp)) =>
             /\ crawlPc'[c] = "done"
             /\ requests'[c] = requests[c]
             /\ returned'[c] = filterValidData(Flatten(pagesSeen[c]))
             /\ cacheFilteredData' = returned'[c]
             /\ pagesSeen'[c] = pagesSeen[c]]_vars

\* C7: a crawl whose second page request failed returned the records of
\* its first page.
C7_Witness ==
    \E c \in Crawls :
        /\ crawlPc[c] = "done"
        /\ stopCause[c] = "error"
        /\ requests[c] = 2
        /\ returned[c] # << >>
        /\ cacheFilteredData = returned[c]

\* the map holds the SNs of the list and only ids the list gives them
MapAgrees(map, list) ==
    /\ DOMAIN map = { list[i].return_sn : i \in 1..Len(list) }
    /\ \A k \in DOMAIN map :
          \E i \in 1..Len(list) :
              list[i].return_sn = k /\ list[i].return_id = map[k]

\* the stored index is the empty one, or the whole of a finished crawl
CompleteIndex ==
    \/ /\ cacheLastUpdate = 0
       /\ cacheRawData = << >>
       /\ cacheFilteredData = << >>
    \/ \E c \in Crawls :
          /\ cacheLastUpdate = c
          /\ crawlPc[c] = "done"
          /\ cacheRawData = Flatten(pagesSeen[c])
          /\ cacheFilteredData = filterValidData(Flatten(pagesSeen[c]))

\* C8: at every instant the cache holds the empty index or the complete
\* index of a finished crawl, with a map that agrees with the record list;
\* it changes only when a crawl finishes or clearCache is called.
C8_AtomicIndexSwap ==
    /\ [](CompleteIndex /\ MapAgrees(cacheSnToIdMap, cacheFilteredData))
    /\ [][ << cacheRawData, cacheFilteredData, cacheSnToIdMap,
              cacheLastUpdate >>' #
           << cacheRawData, cacheFilteredData, cacheSnToIdMap,
              cacheLastUpdate >>
           => \/ cacheLastUpdate' = 0
              \/ \E c \in Crawls :
                    /\ crawlPc[c] # "done"
                    /\ crawlPc'[c] = "done"
                    /\ cacheLastUpdate' = c ]_vars

\* C8: the second crawl is between two pages, holding other records than
\* the index the first crawl stored.
C8_Witness ==
    /\ crawlPc[2] = "sleeping"
    /\ allData[2] # << >>
    /\ cacheLastUpdate = 1
    /\ cacheFilteredData # << >>
    /\ cacheRawData # allData[2]

\* the id of the last record of the list with this SN
LastIdOf(list, k) ==
    LET last == CHOOSE i \in 1..Len(list) :
                    /\ list[i].return_sn = k
                    /\ \A j \in 1..Len(list) : list[j].return_sn = k => j <= i
    IN  list[last].return_id

\* C9: after a crawl completed, the map has one entry per distinct SN of
\* the filtered list, and each SN maps to the id of its last record.
C9_LastWriteWins ==
    \A c \in Crawls :
        (crawlPc[c] = "done" /\ cacheLastUpdate = c) =>
            /\ DOMAIN cacheSnToIdMap =
                 { returned[c][i].return_sn : i \in 1..Len(returned[c]) }
            /\ \A k \in DOMAIN cacheSnToIdMap :
                  cacheSnToIdMap[k] = LastIdOf(returned[c], k)

\* C9: a stored index with two SNs, one of which occurs with two ids, on
\* two pages.
C9_Witness ==
    \E c \in Crawls :
        /\ crawlPc[c] = "done"
        /\ cacheLastUpdate = c
        /\ Len(pagesSeen[c]) = 2
        /\ Cardinality(DOMAIN cacheSnToIdMap) = 2
        /\ \E i, j \in 1..Len(returned[c]) :
              /\ i < j
              /\ returned[c][i].return_sn = returned[c][j].return_sn
              /\ returned[c][i].return_id # returned[c][j].return_id

\* a well-formed response with records whose pagination metadata says
\* hasMore false
LastPage(resp) ==
    /\ resp.status = "json"
    /\ resp.error = 0
    /\ resp.shape \in {"list", "array"}
    /\ resp.body # << >>
    /\ resp.pagination.present
    /\ resp.pagination.has_more = "false"

\* C22: a non-empty page whose pagination metadata says hasMore false ends
\* the crawl: its records are appended, no further page is requested, and
\* the raw records stored are the records of all pages up to and including
\* it, in page order.
C22_StopsOnHasMoreFalse ==
    [][\A c \in Crawls :
          /\ \A resp \in Responses :
                (CrawlResponse(c, resp) /\ LastPage(resp)) =>
                   /\ crawlPc'[c] = "done"
                   /\ requests'[c] = requests[c]
                   /\ allData'[c] = Flatten(pagesSeen[c]) \o resp.body
                   /\ cacheRawData' = allData'[c]
                   /\ pagesSeen'[c] = Append(pagesSeen[c], resp.body)
          /\ (crawlPc[c] = "done" /\ stopCause[c] = "flag") =>
                /\ crawlPc'[c] = "done"
                /\ requests'[c] = requests[c]
                /\ allData'[c] = allData[c]]_vars

\* C22: a crawl of two pages with records, ended by hasMore false on the
\* second, stored the records of both pages in page order.
C22_Witness ==
    \E c \in Crawls :
        /\ crawlPc[c] = "done"
        /\ stopCause[c] = "flag"
        /\ Len(pagesSeen[c]) = 2
        /\ requests[c] = 2
        /\ cacheLastUpdate = c
        /\ cacheRawData = pagesSeen[c][1] \o pagesSeen[c][2]
        /\ pagesSeen[c][1] # pagesSeen[c][2]

\* the request crawl c is waiting on carries the page number, the page
\* size, the two values of the crawl's dateRange, and a cursor with the
\* current cursorOffset exactly when that is not 0
RequestCarries(c) ==
    crawlPc[c] = "fetching" =>
       /\ lastRequest[c].page_number = currentPage[c]
       /\ lastRequest[c].page_size = pageSize
       /\ lastRequest[c].create_time_range = dateRange[c]
       /\ lastRequest[c].cursor.present <=> currentOffset[c] # 0
       /\ lastRequest[c].cursor.present =>
             lastRequest[c].cursor.cursor_offset = currentOffset[c]
       /\ requests[c] = 1 => ~lastRequest[c].cursor.present

\* the cursorOffset the next request will carry is the one of the
\* pagination metadata of the response just processed
OffsetFromResponse(c, resp) ==
    (crawlPc'[c] = "sleeping" /\ currentOffset'[c] # 0) =>
        /\ resp.pagination.present
        /\ currentOffset'[c] = resp.pagination.cursor_offset

\* C23: every page request carries the page number, the fixed pageSize and
\* the lower/upper values of the crawl's dateRange, which never change
\* between pages; it carries a cursor iff the cursorOffset is not 0: the
\* first request never, a later one the cursorOffset of the previous
\* response's pagination metadata.
C23_RequestPayload ==
    [][\A c \in Crawls :
          /\ RequestCarries(c)'
          /\ crawlPc[c] \in {"fetching", "sleeping"} =>
                dateRange'[c] = dateRange[c]
          /\ \A resp \in Responses :
                CrawlResponse(c, resp) => OffsetFromResponse(c, resp)]_vars

\* C18: one crawlOrders call asks for a bounded number of pages whatever
\* the server answers: after MaxPages requests the loop does not stand at
\* its while condition with hasMoreData still true, about to ask for the
\* next page.
C18_PageCeiling ==
    \A c \in Crawls :
       (crawlPc[c] = "sleeping" /\ requests[c] >= MaxPages) =>
          ~hasMoreData[c]

\* C26: a crawl whose first page request fails, so that it collects
\* nothing, leaves a stored non-empty index as it was: records, key to id
\* map and time of the last update.
C26_FailedCrawlKeepsIndex ==
    [][\A c \in Crawls, resp \in Responses :
          ( /\ CrawlResponse(c, resp)
            /\ PageFailure(resp)
            /\ requests[c] = 1
            /\ cacheFilteredData # << >> )
          => UNCHANGED << cacheRawData, cacheFilteredData, cacheSnToIdMap,
                          cacheLastUpdate >>]_vars

\* a well-formed response with records that does not say hasMore false:
\* its pagination metadata is absent, or is there without the flag, or
\* says true
MorePage(resp) ==
    /\ resp.status = "json"
    /\ resp.error = 0
    /\ resp.shape \in {"list", "array"}
    /\ resp.body # << >>
    /\ ~(resp.pagination.present /\ resp.pagination.has_more = "false")

\* C27: the loop stops only on a page failure, an empty or unrecognised
\* page, or hasMore explicitly false: after any other page the crawl goes
\* on, with the loop condition true for the next page request.
C27_StopsOnlyAtEnd ==
    [][\A c \in Crawls, resp \in Responses :
          (CrawlResponse(c, resp) /\ MorePage(resp)) =>
             /\ crawlPc'[c] = "sleeping"
             /\ hasMoreData'[c]]_vars

\* the field is there and is neither empty nor the number 0
Present(v) == v \notin { JsNull, JsUndefined, "", JsZero }

\* the raw record has an id and a key
Kept(item) ==
    item # NullItem /\ Present(item.return_id) /\ Present(item.return_sn)

\* how many of the first i raw records are kept
KeptUpTo(dataArray, i) == Cardinality({ j \in 1..i : Kept(dataArray[j]) })

\* C14: filterValidData returns the raw records that have an id and a key,
\* in the order of the array and reduced to these two fields, so that no
\* record it returns lacks one; the count it logs is the number of records
\* it dropped.
C14_FilterKeepsValidRecords ==
    filterCall.called =>
       LET d == filterCall.dataArray
           out == filterCall.returned
       IN  /\ Len(out) = KeptUpTo(d, Len(d))
           /\ \A i \in 1..Len(d) :
                 Kept(d[i]) =>
                    out[KeptUpTo(d, i)] = [ return_id |-> d[i].return_id,
                                            return_sn |-> d[i].return_sn ]
           /\ \A k \in 1..Len(out) :
                 Present(out[k].return_id) /\ Present(out[k].return_sn)
           /\ filterCall.logged.shown =>
                 filterCall.logged.count = Len(d) - Len(out)
           /\ filterCall.logged.shown <=> Len(d) > Len(out)

\* C14: an array of which the first record (number 0 as key) and the last
\* (null) were dropped and the one between them was kept.
C14_Witness ==
    /\ filterCall.called
    /\ Len(filterCall.dataArray) = 3
    /\ filterCall.dataArray[1].return_sn = JsZero
    /\ filterCall.dataArray[1].return_id = "ID1"
    /\ filterCall.dataArray[3] = NullItem
    /\ Len(filterCall.returned) = 1
    /\ filterCall.logged.count = 2

(***************************************************************************)
(* The SNMatcher                                                           *)
(***************************************************************************)
MatchKeys == { "SN1", "SN2" }

MatchIds == { "ID1", "ID2" }

\* the lists of SNs a caller may pass (an SN may repeat)
KeyLists == UNION { [1..n -> MatchKeys] : n \in 0..MaxKeys }

\* the Maps a caller may pass: any SNs, mapped to any ids
Indexes == UNION { [D -> MatchIds] : D \in SUBSET MatchKeys }

(***************************************************************************)
(* JavaScript numbers are IEEE 754 doubles: 53 significant bits, every     *)
(* operation rounded to the nearest double, ties to the even one.  The     *)
(* integers of the model are narrower than that, so a significand is kept  *)
(* as five limbs of 13 bits, lowest limb first (the highest limb may hold  *)
(* more), and a positive double is [limbs, shift]: the integer of the      *)
(* limbs divided by 2^(52 + shift).                                        *)
(***************************************************************************)
LimbBits == 13

RECURSIVE Pow2(_)
Pow2(k) == IF k = 0 THEN 1 ELSE 2 * Pow2(k - 1)

Limb == Pow2(LimbBits)

\* limbs * k + carry
RECURSIVE ScaleLimbs(_, _, _)
ScaleLimbs(limbs, k, carry) ==
    LET v == Head(limbs) * k + carry
    IN  IF Len(limbs) = 1 THEN << v >>
        ELSE << v % Limb >> \o ScaleLimbs(Tail(limbs), k, v \div Limb)

\* how often the dividend is doubled until the quotient is at least 1
RECURSIVE NormShift(_, _)
NormShift(a, b) == IF a >= b THEN 0 ELSE 1 + NormShift(2 * a, b)

\* k further limbs of the quotient of rem / b, highest limb first
RECURSIVE DivLimbs(_, _, _)
DivLimbs(rem, b, k) ==
    IF k = 0 THEN << >>
    ELSE << (rem * Limb) \div b >> \o DivLimbs((rem * Limb) % b, b, k - 1)

\* the remainder left after these k limbs
RECURSIVE DivRem(_, _, _)
DivRem(rem, b, k) ==
    IF k = 0 THEN rem ELSE DivRem((rem * Limb) % b, b, k - 1)

\* a / b for integers 0 < a <= b, as the double the division yields: the
\* quotient to 53 bits, rounded by what the remainder says
DoubleDiv(a, b) ==
    LET e == NormShift(a, b)
        rem0 == a * Pow2(e) - b
        high == DivLimbs(rem0, b, 4)
        rest == DivRem(rem0, b, 4)
        up == 2 * rest > b \/ (2 * rest = b /\ high[4] % 2 = 1)
        limbs == << high[4], high[3], high[2], high[1], 1 >>
    IN  [ limbs |-> IF up THEN ScaleLimbs(limbs, 1, 1) ELSE limbs,
          shift |-> e ]

\* x * 100, rounded to a double: the product has 59 or 60 bits, of which
\* the lowest 6 or 7 are rounded away
DoubleTimes100(x) ==
    LET product == ScaleLimbs(x.limbs, 100, 0)
        drop == IF product[5] >= Pow2(7) THEN 7 ELSE 6
        low == product[1] % Pow2(drop)
        even == (product[1] \div Pow2(drop)) % 2 = 0
        up == low > Pow2(drop - 1) \/ (low = Pow2(drop - 1) /\ ~even)
        cut == [ product EXCEPT ![1] = @ - low ]
    IN  [ limbs |-> IF up THEN ScaleLimbs(cut, 1, Pow2(drop)) ELSE cut,
          shift |-> x.shift ]

\* Number.prototype.toFixed(1) of a double, in tenths: the integer n for
\* which n / 10 is nearest to the exact value of x, the larger n of two
\* equally near
ToFixed1(x) ==
    LET ten == ScaleLimbs(x.limbs, 10, 0)
        whole == ten[5] \div Pow2(x.shift)
        half == IF x.shift = 0 THEN ten[4] \div Pow2(LimbBits - 1)
                ELSE (ten[5] \div Pow2(x.shift - 1)) % 2
    IN  whole + half

\* parseFloat((matchedResults.length / userSns.length * 100).toFixed(1)),
\* in tenths of a percent
RateTenths(matchedCount, total) ==
    IF matchedCount = 0 THEN 0
    ELSE ToFixed1(DoubleTimes100(DoubleDiv(matchedCount, total)))

\* (a slip: an SN that was matched before is skipped)
RECURSIVE MatchAllOnce(_, _, _)
MatchAllOnce(userSns, crawledMap, acc) ==
    IF userSns = << >> THEN acc
    ELSE LET sn == Head(userSns)
             seen == \E i \in 1..Len(acc.matched) :
                         acc.matched[i].return_sn = sn
         IN  MatchAllOnce(Tail(userSns), crawledMap,
                 IF sn \in DOMAIN crawledMap /\ ~seen
                 THEN [ acc EXCEPT
                          !.matched = Append(@, [ return_sn |-> sn,
                                                  return_id |-> crawledMap[sn] ]),
                          !.map = MapSet(@, sn, crawledMap[sn]) ]
                 ELSE IF sn \in DOMAIN crawledMap THEN acc
                 ELSE [ acc EXCEPT !.unmatched = Append(@, sn) ])

\* userSns.forEach(sn => ...) on acc, which holds matchedResults,
\* unmatchedSns and this.cache.snToIdMap: the callback runs on the SNs in
\* list order, so matchedResults receives the SNs the Map has, in that
\* order and each with the id the Map gives it, unmatchedSns receives the
\* others, and snToIdMap is set for every SN the Map has
MatchAll(userSns, crawledMap, acc) ==
    LET hits == SelectSeq(userSns, LAMBDA sn : sn \in DOMAIN crawledMap)
        misses == SelectSeq(userSns, LAMBDA sn : sn \notin DOMAIN crawledMap)
        hitSet == { hits[i] : i \in 1..Len(hits) }
    IN  [ matched |-> acc.matched \o
                      [ i \in 1..Len(hits) |->
                          [ return_sn |-> hits[i],
                            return_id |-> crawledMap[hits[i]] ] ],
          unmatched |-> acc.unmatched \o misses,
          map |-> [ k \in DOMAIN acc.map \cup hitSet |->
                      IF k \in hitSet THEN crawledMap[k] ELSE acc.map[k] ] ]

\* SNMatcher.matchReturnSns(userSns, crawledMap)
matchReturnSns(userSns, crawledMap) ==
    /\ matchCall' = [ called |-> TRUE, userSns |-> userSns,
                      crawledMap |-> crawledMap ]
    /\ IF Len(userSns) = 0
       THEN /\ matchResult' = [ matched |-> << >>, unmatched |-> << >>,
                                matchRate |-> 0, notice |-> "no_sns" ]
            /\ UNCHANGED << matchedCache, unmatchedCache, matcherMap >>
       ELSE IF Cardinality(DOMAIN crawledMap) = 0
       THEN /\ matchResult' = [ matched |-> << >>, unmatched |-> userSns,
                                matchRate |-> 0, notice |-> "no_data" ]
            /\ UNCHANGED << matchedCache, unmatchedCache, matcherMap >>
       ELSE LET done == MatchAll(userSns, crawledMap,
                            [ matched |-> << >>, unmatched |-> << >>,
                              map |-> matcherMap ])
            IN  /\ matcherMap' = done.map
                /\ matchedCache' = done.matched
                /\ unmatchedCache' = done.unmatched
                /\ matchResult' =
                     [ matched |-> done.matched, unmatched |-> done.unmatched,
                       matchRate |-> RateTenths(Len(done.matched), Len(userSns)),
                       notice |-> "none" ]
    /\ UNCHANGED << userInput, parseCall >>

MatchCall ==
    /\ \E userSns \in KeyLists, crawledMap \in Indexes :
          matchReturnSns(userSns, crawledMap)
    /\ UNCHANGED nonMatchVars

\* SNMatcher.clearCache()
ClearMatcherCache ==
    /\ userInput' = << >>
    /\ matchedCache' = << >>
    /\ unmatchedCache' = << >>
    /\ matcherMap' = EmptyMap
    /\ UNCHANGED << matchCall, matchResult, parseCall >>
    /\ UNCHANGED nonMatchVars

\* SNMatcher.getReturnId(returnSn): the id of the map, or null
getReturnId(returnSn) ==
    IF returnSn \in DOMAIN matcherMap THEN matcherMap[returnSn] ELSE JsNull

InitMatch ==
    /\ matchedResults = << >>
    /\ ExtractorConstructed
    /\ CrawlerConstructed
    /\ MatcherConstructed
    /\ NoStandaloneCall

NextMatch ==
    \/ MatchCall
    \/ ClearMatcherCache

SpecMatch == InitMatch /\ [][NextMatch]_vars

\* a list of total SNs of which the first matchedCount are in RateIndex
RateList(matchedCount, total) ==
    [ i \in 1..total |-> IF i <= matchedCount THEN "SN1" ELSE "SN2" ]

RateIndex == [ k \in { "SN1" } |-> "ID1" ]

\* one matchReturnSns call, on a list with any number of hits
RateCall ==
    /\ ~matchCall.called
    /\ \E total \in 1..MaxTotal, matchedCount \in 0..MaxTotal :
          /\ matchedCount <= total
          /\ matchReturnSns(RateList(matchedCount, total), RateIndex)
    /\ UNCHANGED nonMatchVars

\* clearCache() after the call
RateReset ==
    /\ matchCall.called
    /\ ClearMatcherCache

NextRate ==
    \/ RateCall
    \/ RateReset

SpecRate == InitMatch /\ [][NextRate]_vars

(***************************************************************************)
(* parseUserInput.  A text is a sequence of characters.                    *)
(***************************************************************************)
Newline == "\n"

\* characters String.prototype.trim removes (those that occur here)
Whitespace == { " ", "\t", "\r", Newline }

\* [A-Z0-9] (those that occur here)
UpperOrDigit == { "A", "B", "Z", "0", "1", "9" }

Repeat(c, n) == [ i \in 1..n |-> c ]

\* the lines a user may type
LineChoices ==
    { << >>,
      << " ", "\t" >>,
      << "A", "B" >>,
      << "A", "B", "Z" >>,
      << " ", "A", "B", "1", "\r" >>,
      << "a", "b", "c" >>,
      << "A", " ", "9", "0" >>,
      Repeat("Z", 20),
      Repeat("9", 21) }

RECURSIVE JoinLines(_)
JoinLines(lines) ==
    IF Len(lines) = 1 THEN lines[1]
    ELSE lines[1] \o << Newline >> \o JoinLines(Tail(lines))

\* what parseUserInput may be given: a text (lines: the lines it was typed
\* as), or something that is no string
Inputs ==
    { [ type |-> "string", text |-> JoinLines(lines), lines |-> lines ] :
        lines \in UNION { [1..n -> LineChoices] : n \in 1..MaxLines } }
    \cup { [ type |-> t, text |-> << >>, lines |-> << >> ] :
             t \in { "undefined", "number" } }

\* input.split('\n')
SplitLines(text) ==
    LET cuts == { i \in 1..Len(text) : text[i] = Newline }
                  \cup { 0, Len(text) + 1 }
        Cut(k) == CHOOSE c \in cuts : Cardinality({ d \in cuts : d < c }) = k
    IN  [ k \in 1..(Cardinality(cuts) - 1) |->
            SubSeq(text, Cut(k - 1) + 1, Cut(k) - 1) ]

\* line.trim()
Trim(line) ==
    LET inked == { i \in 1..Len(line) : line[i] \notin Whitespace }
    IN  IF inked = {} THEN << >>
        ELSE SubSeq(line,
                    CHOOSE i \in inked : \A j \in inked : i <= j,
                    CHOOSE i \in inked : \A j \in inked : j <= i)

\* (a slip: one character more is let through)
validateReturnSnUpTo21(sn) ==
    /\ Len(sn) \in 3..21
    /\ \A i \in 1..Len(sn) : sn[i] \in UpperOrDigit

\* ShopeeUtils.validateReturnSn: /^[A-Z0-9]{3,20}$/.test(sn)
validateReturnSn(sn) ==
    /\ Len(sn) \in 3..20
    /\ \A i \in 1..Len(sn) : sn[i] \in UpperOrDigit

\* SNMatcher.parseUserInput(input)
parseUserInput(input) ==
    IF input.type # "string" \/ input.text = << >>
    THEN /\ parseCall' = [ called |-> TRUE, input |-> input,
                           returned |-> << >>, error |-> "no_input" ]
         /\ UNCHANGED userInput
    ELSE LET split == SplitLines(input.text)
             lines == SelectSeq([ k \in 1..Len(split) |-> Trim(split[k]) ],
                                LAMBDA line : Len(line) > 0)
             validSns == SelectSeq(lines, validateReturnSn)
         IN  IF Len(validSns) = 0
             THEN /\ parseCall' = [ called |-> TRUE, input |-> input,
                                    returned |-> << >>, error |-> "no_valid" ]
                  /\ UNCHANGED userInput
             ELSE /\ parseCall' = [ called |-> TRUE, input |-> input,
                                    returned |-> validSns, error |-> "none" ]
                  /\ userInput' = validSns

ParseCall ==
    /\ ~parseCall.called
    /\ \E input \in Inputs : parseUserInput(input)
    /\ UNCHANGED << matchedCache, unmatchedCache, matcherMap, matchCall,
                    matchResult >>
    /\ UNCHANGED nonMatchVars

\* clearCache() after the call
ParseReset ==
    /\ parseCall.called
    /\ ClearMatcherCache

NextParse ==
    \/ ParseCall
    \/ ParseReset

SpecParse == InitMatch /\ [][NextParse]_vars

(***************************************************************************)
(* The claims about the SNMatcher                                          *)
(***************************************************************************)
\* how many of the first i SNs of the list the index holds
HitsUpTo(keys, index, i) ==
    Cardinality({ j \in 1..i : keys[j] \in DOMAIN index })

\* C10: on a non-empty list and a non-empty index, every SN of the list is
\* in matched, with the id the index gives it, iff the index holds it, and
\* in unmatched otherwise; both keep the order of the list, repeats
\* included, so that their lengths add up to the length of the list.
C10_MatchPartitionsInput ==
    LET keys == matchCall.userSns
        index == matchCall.crawledMap
        r == matchResult
    IN  (matchCall.called /\ keys # << >> /\ DOMAIN index # {}) =>
           /\ Len(r.matched) + Len(r.unmatched) = Len(keys)
           /\ Len(r.matched) = HitsUpTo(keys, index, Len(keys))
           /\ \A i \in 1..Len(keys) :
                 IF keys[i] \in DOMAIN index
                 THEN r.matched[HitsUpTo(keys, index, i)] =
                        [ return_sn |-> keys[i], return_id |-> index[keys[i]] ]
                 ELSE r.unmatched[i - HitsUpTo(keys, index, i)] = keys[i]

\* C10: a match of a list with a repeated SN the index holds and an SN it
\* does not hold.
C10_Witness ==
    /\ matchCall.called
    /\ Len(matchResult.matched) = 2
    /\ Len(matchResult.unmatched) = 1
    /\ matchResult.matched[1].return_sn = matchResult.matched[2].return_sn
    /\ matchCall.userSns[2] = matchResult.unmatched[1]

\* what the caller of matchReturnSns gets back
Returned(r) ==
    [ matched |-> r.matched, unmatched |-> r.unmatched,
      matchRate |-> r.matchRate ]

\* C11: a match against an empty index is signalled to the caller as an
\* error of its own: what the call hands back differs from what a match of
\* the same SNs against a non-empty index that holds none of them hands
\* back.
C11_NoDataDistinguishable ==
    [][( /\ matchCall.called
         /\ matchCall.userSns # << >>
         /\ DOMAIN matchCall.crawledMap # {}
         /\ matchResult.matched = << >>
         /\ matchCall'.called
         /\ matchCall'.userSns = matchCall.userSns
         /\ DOMAIN matchCall'.crawledMap = {} )
       => Returned(matchResult') # Returned(matchResult)]_vars

\* matchedCount / total * 100 rounded to one decimal place, in tenths
RoundedPercentTenths(matchedCount, total) ==
    (2000 * matchedCount + total) \div (2 * total)

\* C12: on a non-empty list and a non-empty index the match rate is the
\* share of matched SNs among all SNs of the list (repeats counted), in
\* percent, rounded to one decimal place, and lies between 0 and 100.
C12_MatchRateRounded ==
    (matchCall.called /\ matchCall.userSns # << >>
        /\ DOMAIN matchCall.crawledMap # {}) =>
       /\ matchResult.matchRate =
            RoundedPercentTenths(Len(matchResult.matched),
                                 Len(matchCall.userSns))
       /\ matchResult.matchRate \in 0..1000

Blank(c) == c \in { " ", "\t", "\r" }

RECURSIVE StripLeft(_)
StripLeft(line) ==
    IF line # << >> /\ Blank(Head(line)) THEN StripLeft(Tail(line)) ELSE line

RECURSIVE StripRight(_)
StripRight(line) ==
    IF line # << >> /\ Blank(line[Len(line)])
    THEN StripRight(SubSeq(line, 1, Len(line) - 1))
    ELSE line

\* the format rule: 3 to 20 characters, uppercase letters and digits only
IsKey(line) ==
    /\ Len(line) >= 3
    /\ Len(line) <= 20
    /\ \A i \in 1..Len(line) : line[i] \in { "A", "B", "Z", "0", "1", "9" }

\* C13: parseUserInput returns (it has no way to throw) exactly the
\* trimmed lines of the text that follow the format rule, in the order of
\* the text, and shows an error iff it returns no SN.
C13_ParseKeepsValidLines ==
    parseCall.called =>
       LET typed == parseCall.input.lines
       IN  /\ parseCall.error # "none" <=> parseCall.returned = << >>
           /\ parseCall.returned =
                SelectSeq([ k \in 1..Len(typed) |->
                              StripRight(StripLeft(typed[k])) ], IsKey)

\* C13: a text of three lines of which the second, of 21 characters, is
\* dropped and a padded one and one of 20 characters are kept.
C13_Witness ==
    /\ parseCall.called
    /\ Len(parseCall.returned) = 2
    /\ Len(parseCall.returned[1]) = 3
    /\ Len(parseCall.returned[2]) = 20
    /\ \E i \in 1..Len(parseCall.input.text) :
          parseCall.input.text[i] = "\r"
    /\ Len(parseCall.input.text) > 45

\* C25: the id map of the matcher is recomputed by every match: whenever
\* getReturnId(k) gives an id, k is in the matched list of the most recent
\* matchReturnSns call, with that id: no entry of an earlier match or an
\* earlier index survives.
C25_DerivedStatePerMatch ==
    \A k \in MatchKeys :
       getReturnId(k) # JsNull =>
          \E i \in 1..Len(matchResult.matched) :
             /\ matchResult.matched[i].return_sn = k
             /\ matchResult.matched[i].return_id = getReturnId(k)

====
